---- MODULE Spec2Model ----
(***************************************************************************)
(* Model of the CCNet protocol engine of src/src/Device.ts: the task       *)
(* queue, the busy gate, the tick clock with its setImmediate-deferred     *)
(* callbacks, the per-task timeout accumulator, the inbound frame handler  *)
(* with its ACK/NAK handshake, and the serial port lifecycle.              *)
(*                                                                         *)
(* One action is one macrotask of the Node.js event loop.  The frame       *)
(* handler is an async function; its continuations are microtasks, which   *)
(* run before any other macrotask, so the whole handling of one frame is   *)
(* one action (the interleaving of several handlers' continuations is      *)
(* computed inside it).                                                    *)
(*                                                                         *)
(* Modelling decisions:                                                    *)
(*  - serial.open / serial.close and the 'open' / 'close' event they end   *)
(*    in are one step each: between the request and the event the engine   *)
(*    only ticks, as it does before the request.                           *)
(*  - a frame is delivered only while a handler listens on the parser; a   *)
(*    frame emitted without listener changes nothing in the engine.        *)
(*  - the sink built by execute() does not throw; the sink of the Poll     *)
(*    Task throws the error it is given (lines 493-495).  What an error    *)
(*    thrown out of a callback does to the process depends on the host,    *)
(*    so both outcomes are kept.                                           *)
(*  - getCRC16 (Utils) and the frame layout (Const/CCNet) are not part of  *)
(*    Device.ts and follow the protocol description.                       *)
(*  - connect() resumes in the microtasks of the step that called the      *)
(*    sink of the command it awaits, so the next command is enqueued, or   *)
(*    'connect' emitted, within that step.                                 *)
(*                                                                         *)
(* Specifications:                                                         *)
(*  - Spec: callers using execute(), the port opening, closing, failing.   *)
(*  - SpecConnect: one connect() call, the port closing or failing.        *)
(*  - SpecAsync: one asyncOnce() call while the engine polls.              *)
(*  - SpecProgress: Spec without close and error of the port, with weak    *)
(*    fairness of the tick and of the deferred callbacks.                  *)
(***************************************************************************)
EXTENDS Integers, Sequences, FiniteSets, TLC

----------------------------------------------------------------------------
(* Bounds *)

\* number of Tasks ever created by execute() and by onTick (Poll Tasks);
\* the Tasks of connect() are counted apart, by ConnectCommands
MaxTasks == 3

\* timeout budgets a caller may pass to execute()
Timeouts == {0, 200}

----------------------------------------------------------------------------
(* Program constants *)

timerMs == 100

PollTimeout == 1000

\* the default timeout of execute() and of asyncOnce()
DefaultTimeout == 1000

\* connect() sends Reset, Identification, GetBillTable, GetCRC32OfTheCode
ConnectCommands == 4

SYNC == 2

ADR == 3

POLYNOMIAL == 33800

ACK == 0

NAK == 255

REPLACEMENT == 65533

----------------------------------------------------------------------------
(* Helpers *)

Range(s) == {s[i] : i \in 1..Len(s)}

RECURSIVE Without(_, _)
\* EventEmitter.removeListener: removes the most recently added instance;
\* every listener here is registered at most once
Without(s, x) ==
  IF s = <<>> THEN <<>>
  ELSE IF Head(s) = x THEN Tail(s)
  ELSE <<Head(s)>> \o Without(Tail(s), x)

RECURSIVE Xor(_, _)
Xor(a, b) ==
  IF a = 0 THEN b
  ELSE IF b = 0 THEN a
  ELSE (((a % 2) + (b % 2)) % 2) + (2 * Xor(a \div 2, b \div 2))

RECURSIVE CrcBits(_, _)
CrcBits(crc, n) ==
  IF n = 0 THEN crc
  ELSE CrcBits(IF crc % 2 = 1 THEN Xor(crc \div 2, POLYNOMIAL) ELSE crc \div 2, n - 1)

RECURSIVE CrcBytes(_, _)
CrcBytes(crc, bytes) ==
  IF bytes = <<>> THEN crc
  ELSE CrcBytes(CrcBits(Xor(crc, Head(bytes)), 8), Tail(bytes))

\* 16-bit CRC, least significant bit first, zero start, no final inversion,
\* returned as a 2-byte little-endian buffer
getCRC16(bytes) ==
  LET c == CrcBytes(0, bytes) IN <<c % 256, c \div 256>>

\* a payload framed by the peer: sync, address, total length, payload, CRC
Framed(payload) ==
  LET hdr == <<SYNC, ADR, 5 + Len(payload)>> \o payload
  IN  hdr \o getCRC16(hdr)

\* Buffer.slice(from, to) with 0-based half-open indices
slice(buf, from, to) == SubSeq(buf, from + 1, to)

\* UTF-8 decoding of the last byte of a buffer
Utf8Last(b) == IF b < 128 THEN <<b>> ELSE <<REPLACEMENT>>

\* is b1 a continuation byte that may follow the lead byte b0
Utf8Continues(b0, b1) ==
  CASE b0 = 224 -> b1 \in 160..191
    [] b0 = 237 -> b1 \in 128..159
    [] b0 = 240 -> b1 \in 144..191
    [] b0 = 244 -> b1 \in 128..143
    [] OTHER    -> b1 \in 128..191

\* Buffer.toString() (UTF-8) of a 2-byte buffer, as a sequence of code points
toString(buf) ==
  LET b0 == buf[1]
      b1 == buf[2]
  IN  IF b0 < 128 THEN <<b0>> \o Utf8Last(b1)
      ELSE IF b0 \in 194..223 /\ Utf8Continues(b0, b1)
             THEN <<((b0 % 32) * 64) + (b1 % 64)>>
      ELSE IF b0 \in 224..244 /\ Utf8Continues(b0, b1)
             THEN <<REPLACEMENT>>
      ELSE <<REPLACEMENT>> \o Utf8Last(b1)

----------------------------------------------------------------------------
(* Inbound frames the peer may send *)

\* replace the byte at 1-based position i
Corrupt(frame, i, b) == [frame EXCEPT ![i] = b]

\* a Poll response reporting status 0x14 (IDLING): 02 03 06 14 67 D4
FrameResp == Framed(<<20>>)

\* 02 03 06 00 C2 82
FrameAck == Framed(<<ACK>>)

\* 02 03 06 FF BA 8D
FrameNak == Framed(<<NAK>>)

\* corrupted checksums: 66 D4, 67 D5, C2 83, 3A 8D
FrameRespBad == Corrupt(FrameResp, 5, 102)

FrameRespBadHigh == Corrupt(FrameResp, 6, 213)

FrameAckBad == Corrupt(FrameAck, 6, 131)

FrameNakBad == Corrupt(FrameNak, 5, 58)

\* a Poll response reporting the two-byte status 0x1c 0x60
FrameRejecting == Framed(<<28, 96>>)

\* a Poll response reporting a status that enum DeviceStatus does not list
FrameAbsent == Framed(<<153>>)

Frames ==
  {FrameResp, FrameAck, FrameNak, FrameRespBad, FrameRespBadHigh, FrameAckBad, FrameNakBad,
   FrameRejecting, FrameAbsent}

\* the trailing 2 bytes are the CRC16 of the preceding bytes
CrcMatches(f) == slice(f, Len(f) - 2, Len(f)) = getCRC16(slice(f, 0, Len(f) - 2))

Payload(f) == slice(f, 3, Len(f) - 2)

----------------------------------------------------------------------------
(* Values passed to a Task's completion sink *)

NoError == [code |-> 0, message |-> "null"]

RequestTimeout == [code |-> 10, message |-> "Request timeout."]

WrongResponseHash == [code |-> 11, message |-> "Wrong response data hash."]

WrongRequestHash == [code |-> 11, message |-> "Wrong request data hash."]

Null == [isNull |-> TRUE, bytes |-> <<>>]

Buf(b) == [isNull |-> FALSE, bytes |-> b]

----------------------------------------------------------------------------
(* The status codes of the device *)

\* enum DeviceStatus: the code of every state, as the bytes its hex string
\* spells
DeviceStatus ==
  [POWER_UP |-> <<16>>,
   POWER_UP_WITH_BILL_IN_VALIDATOR |-> <<17>>,
   POWER_UP_WITH_BILL_IN_STACKER |-> <<18>>,
   INITIALIZE |-> <<19>>,
   IDLING |-> <<20>>,
   ACCEPTING |-> <<21>>,
   STACKING |-> <<23>>,
   RETURNING |-> <<24>>,
   UNIT_DISABLED |-> <<25>>,
   HOLDING |-> <<26>>,
   DEVICE_BUSY |-> <<27>>,
   REJECTING_DUE_TO_INSERTION |-> <<28, 96>>,
   REJECTING_DUE_TO_MAGNETIC |-> <<28, 97>>,
   REJECTING_DUE_TO_REMAINED_BILL_IN_HEAD |-> <<28, 98>>,
   REJECTING_DUE_TO_MULTIPLYING |-> <<28, 99>>,
   REJECTING_DUE_TO_CONVEYING |-> <<28, 100>>,
   REJECTING_DUE_TO_IDENTIFICATION |-> <<28, 101>>,
   REJECTING_DUE_TO_VERIFICATION |-> <<28, 102>>,
   REJECTING_DUE_TO_OPTIC |-> <<28, 103>>,
   REJECTING_DUE_TO_INHIBIT |-> <<28, 104>>,
   REJECTING_DUE_TO_CAPACITY |-> <<28, 105>>,
   REJECTING_DUE_TO_OPERATION |-> <<28, 106>>,
   REJECTING_DUE_TO_LENGTH |-> <<28, 108>>,
   REJECTING_DUE_TO_UNRECOGNISED_BARCODE |-> <<28, 146>>,
   REJECTING_DUE_TO_UV |-> <<28, 109>>,
   REJECTING_DUE_TO_INCORRECT_NUMBER_OF_CHARACTERS_IN_BARCODE |-> <<28, 147>>,
   REJECTING_DUE_TO_UNKNOWN_BARCODE_START_SEQUENCE |-> <<28, 148>>,
   REJECTING_DUE_TO_UNKNOWN_BARCODE_STOP_SEQUENCE |-> <<28, 149>>,
   DROP_CASSETTE_FULL |-> <<65>>,
   DROP_CASSETTE_OUT_OF_POSITION |-> <<66>>,
   VALIDATOR_JAMMED |-> <<67>>,
   DROP_CASSETTE_JAMMED |-> <<68>>,
   CHEATED |-> <<69>>,
   PAUSE |-> <<70>>,
   STACK_MOTOR_FAILURE |-> <<71, 80>>,
   TRANSPORT_MOTOR_SPEED_FAILURE |-> <<71, 81>>,
   TRANSPORT_MOTOR_FAILURE |-> <<71, 82>>,
   ALIGNING_MOTOR_FAILURE |-> <<71, 83>>,
   INITIAL_CASSETTE_STATUS_FAILURE |-> <<71, 84>>,
   OPTIC_CANAL_FAILURE |-> <<71, 85>>,
   MAGNETIC_CANAL_FAILURE |-> <<71, 86>>,
   CAPACITANCE_CANAL_FAILURE |-> <<71, 95>>,
   ESCROW_POSITION |-> <<128>>,
   BILL_STACKED |-> <<129>>,
   BILL_RETURNED |-> <<130>>]

----------------------------------------------------------------------------
VARIABLES
  isOpen,          \* serial.isOpen
  timerOn,         \* the setInterval of onSerialPortOpen is active
  busy,            \* Device.busy
  queue,           \* Device.queue, a sequence of Task ids
  tasks,           \* every Task created so far, indexed by id (creation order)
  tickListeners,   \* Tasks whose timeoutHandler is registered on 'tick'
  dataListeners,   \* Tasks whose handler is registered on the parser's 'data'
  timeoutCounter,  \* timeoutCounter of each Task's onTick closure
  imm,             \* pending setImmediate callbacks, in order
  checkPhase,      \* the event loop is in the middle of running imm
  alive,           \* the process has not been terminated by an uncaught error
  done,            \* per Task, the number of task.done calls so far
  doneOrder,       \* Tasks in the order of their first task.done call
  ticksSeen,       \* per Task in flight, 'tick' events emitted since its dispatch
  lastWrites,      \* serial.write calls made by the last step
  lastDone,        \* task.done calls made by the last step
  lastEmits,       \* notifications emitted to subscribers by the last step
  conn,            \* the position of a connect() call
  waiter           \* the state of an asyncOnce() call

vars ==
  <<isOpen, timerOn, busy, queue, tasks, tickListeners, dataListeners,
    timeoutCounter, imm, checkPhase, alive, done, doneOrder, ticksSeen,
    lastWrites, lastDone, lastEmits, conn, waiter>>

\* ids of the Tasks of execute() and onTick, and of those of connect()
TaskIds == 1..(MaxTasks + ConnectCommands)

\* connect() has not been called
ConnIdle == [pc |-> "idle", ids |-> <<>>]

\* asyncOnce() has not been called
NoWaiter ==
  [state |-> "none", listening |-> FALSE, timeout |-> 0, counter |-> 0, ticks |-> 0]

Created == 1..Len(tasks)

\* Tasks shifted off the queue by onTick
Dispatched == Created \ Range(queue)

\* bytes written and completion sink not yet invoked
InFlight == {t \in Dispatched : done[t] = 0}

Init ==
  /\ isOpen = FALSE
  /\ timerOn = FALSE
  /\ busy = FALSE
  /\ queue = <<>>
  /\ tasks = <<>>
  /\ tickListeners = <<>>
  /\ dataListeners = <<>>
  /\ timeoutCounter = [t \in TaskIds |-> 0]
  /\ imm = <<>>
  /\ checkPhase = FALSE
  /\ alive = TRUE
  /\ done = [t \in TaskIds |-> 0]
  /\ doneOrder = <<>>
  /\ ticksSeen = [t \in TaskIds |-> 0]
  /\ lastWrites = <<>>
  /\ lastDone = <<>>
  /\ lastEmits = <<>>
  /\ conn = ConnIdle
  /\ waiter = NoWaiter

----------------------------------------------------------------------------
(* Recording of task.done calls *)

\* a step of the engine that emits nothing and belongs to no connect() or
\* asyncOnce() call
Quiet ==
  /\ lastEmits' = <<>>
  /\ UNCHANGED <<conn, waiter>>

RECURSIVE RecordDone(_, _)
RecordDone(d, calls) ==
  IF calls = <<>> THEN d
  ELSE RecordDone([d EXCEPT ![Head(calls).task] = @ + 1], Tail(calls))

RECURSIVE RecordOrder(_, _)
RecordOrder(order, calls) ==
  IF calls = <<>> THEN order
  ELSE LET t == Head(calls).task
       IN  RecordOrder(IF t \in Range(order) THEN order ELSE Append(order, t),
                       Tail(calls))

\* the Poll Task's sink throws the error it is given; a caller's sink
\* rejects its promise
Throws(t, err) == tasks[t].kind = "poll" /\ err # NoError

\* the notifications onStatus emits for the status `status`: its body is
\* empty
onStatus(status) == <<>>

\* the notifications emitted by the sinks of the Poll Tasks among `calls`:
\* a Poll Task's sink hands the data of a success to onStatus
RECURSIVE StatusEmits(_)
StatusEmits(calls) ==
  IF calls = <<>> THEN <<>>
  ELSE LET c == Head(calls)
       IN  (IF tasks[c.task].kind = "poll" /\ c.err = NoError
              THEN onStatus(c.data) ELSE <<>>)
           \o StatusEmits(Tail(calls))

----------------------------------------------------------------------------
(* connect() resuming from an awaited command *)

\* a Task of execute() with the default timeout
CommandTask == [kind |-> "caller", timeout |-> DefaultTimeout]

\* the command connect() awaits, 0 when it awaits none
Awaited(c) == IF c.pc = "await" THEN c.ids[Len(c.ids)] ELSE 0

\* the first of the calls made to task t's sink among `calls`
FirstCall(calls, t) ==
  calls[CHOOSE i \in 1..Len(calls) :
          /\ calls[i].task = t
          /\ \A j \in 1..(i - 1) : calls[j].task # t]

\* variant: connect() goes on to the next command after a failed one
ConnectResumeIgnoresError(c, calls, ts, q) ==
  IF \A i \in 1..Len(calls) : calls[i].task # Awaited(c)
    THEN [conn |-> c, tasks |-> ts, queue |-> q, emits |-> <<>>]
  ELSE IF Len(c.ids) < ConnectCommands
    THEN [conn |-> [c EXCEPT !.ids = Append(@, Len(ts) + 1)],
          tasks |-> Append(ts, CommandTask),
          queue |-> Append(q, Len(ts) + 1),
          emits |-> <<>>]
  ELSE [conn |-> [c EXCEPT !.pc = "connected"], tasks |-> ts, queue |-> q,
        emits |-> <<[event |-> "connect"]>>]

\* connect() after the sink of the command it awaits was called: the first
\* call settles the promise of execute(); on an error connect() rejects,
\* on a success it enqueues the next command or, after the last one,
\* emits 'connect'
ConnectResume(c, calls, ts, q) ==
  IF \A i \in 1..Len(calls) : calls[i].task # Awaited(c)
    THEN [conn |-> c, tasks |-> ts, queue |-> q, emits |-> <<>>]
  ELSE IF FirstCall(calls, Awaited(c)).err # NoError
    THEN [conn |-> [c EXCEPT !.pc = "rejected"], tasks |-> ts, queue |-> q, emits |-> <<>>]
  ELSE IF Len(c.ids) < ConnectCommands
    THEN [conn |-> [c EXCEPT !.ids = Append(@, Len(ts) + 1)],
          tasks |-> Append(ts, CommandTask),
          queue |-> Append(q, Len(ts) + 1),
          emits |-> <<>>]
  ELSE [conn |-> [c EXCEPT !.pc = "connected"], tasks |-> ts, queue |-> q,
        emits |-> <<[event |-> "connect"]>>]

----------------------------------------------------------------------------
(* The inbound frame handler *)

Write(kind, t) == [kind |-> kind, task |-> t]

OpWrite(kind) == [op |-> "write", what |-> kind, err |-> NoError, data |-> Null]

OpBusyFalse == [op |-> "busy", what |-> "", err |-> NoError, data |-> Null]

OpDone(err, data) == [op |-> "done", what |-> "", err |-> err, data |-> data]

\* variant: the ACK marker is handshake-only and the handler returns
HandlerSegmentsAckWaits(response) ==
  LET ln     == Len(response)
      check  == slice(response, ln - 2, ln)
      body   == slice(response, 0, ln - 2)
      data   == slice(response, 3, ln - 2)
      finish == <<OpBusyFalse, OpDone(NoError, Buf(data))>>
      rest   == IF Len(data) = 1 /\ data[1] = ACK
                  THEN <<(<<>>)>>
                ELSE IF Len(data) = 1 /\ data[1] = NAK
                  THEN <<(<<OpBusyFalse, OpDone(WrongRequestHash, Null)>> \o finish)>>
                ELSE <<(<<OpWrite("Ack")>>), finish>>
  IN  IF toString(check) # toString(getCRC16(body))
        THEN <<(<<OpWrite("Nak")>>),
               (<<OpBusyFalse, OpDone(WrongResponseHash, Null)>> \o Head(rest))>>
             \o Tail(rest)
        ELSE rest

\* the statements the handler runs for the frame `response`, as the
\* sequence of segments separated by its awaits
HandlerSegments(response) ==
  LET ln     == Len(response)
      check  == slice(response, ln - 2, ln)
      body   == slice(response, 0, ln - 2)
      data   == slice(response, 3, ln - 2)
      finish == <<OpBusyFalse, OpDone(NoError, Buf(data))>>
      rest   == IF Len(data) = 1 /\ data[1] = ACK
                  THEN <<finish>>
                ELSE IF Len(data) = 1 /\ data[1] = NAK
                  THEN <<(<<OpBusyFalse, OpDone(WrongRequestHash, Null)>> \o finish)>>
                ELSE <<(<<OpWrite("Ack")>>), finish>>
  IN  IF toString(check) # toString(getCRC16(body))
        THEN <<(<<OpWrite("Nak")>>),
               (<<OpBusyFalse, OpDone(WrongResponseHash, Null)>> \o Head(rest))>>
             \o Tail(rest)
        ELSE rest

\* acc: the busy flag, the writes and done calls made so far, and the
\* handlers ended by an error thrown out of task.done
RECURSIVE RunOps(_, _, _)
RunOps(acc, t, ops) ==
  IF ops = <<>> \/ t \in acc.dead THEN acc
  ELSE LET o == Head(ops)
           nxt == CASE o.op = "write" ->
                         [acc EXCEPT !.writes = Append(@, Write(o.what, 0))]
                    [] o.op = "busy" ->
                         [acc EXCEPT !.busy = FALSE]
                    [] o.op = "done" ->
                         [acc EXCEPT !.dones = Append(@, [task |-> t, err |-> o.err, data |-> o.data]),
                                     !.dead = IF Throws(t, o.err) THEN @ \cup {t} ELSE @]
       IN  RunOps(nxt, t, Tail(ops))

RECURSIVE RunSegment(_, _, _)
RunSegment(acc, hs, seg) ==
  IF hs = <<>> THEN acc
  ELSE RunSegment(RunOps(acc, Head(hs), seg), Tail(hs), seg)

\* every listener runs its first segment during the emit; the continuations
\* then run as microtasks, in the order in which they were suspended
RECURSIVE RunHandlers(_, _, _)
RunHandlers(acc, hs, segs) ==
  IF segs = <<>> THEN acc
  ELSE RunHandlers(RunSegment(acc, hs, Head(segs)), hs, Tail(segs))

RECURSIVE WithoutAll(_, _)
WithoutAll(s, xs) ==
  IF xs = <<>> THEN s ELSE WithoutAll(Without(s, Head(xs)), Tail(xs))

\* an error thrown out of a callback ends the process unless the host
\* application handles it
AfterThrow(thrown) == IF thrown THEN BOOLEAN ELSE {TRUE}

\* the closure of a Task's timeoutHandler is unreachable once the listener is
\* removed and none of its deferred steps is pending: its counter is dropped
Collect(counter, listeners, pending) ==
  [t \in TaskIds |->
     IF t \in Range(listeners) \/ (\E i \in 1..Len(pending) : pending[i].task = t)
       THEN counter[t] ELSE 0]

\* the handler's segments for every frame of Frames
SegmentsOf == [response \in Frames |-> HandlerSegments(response)]

\* the parser emits 'data' with the complete frame `response`
HandlerFor(response) ==
  /\ alive
  /\ isOpen
  /\ ~checkPhase
  /\ dataListeners # <<>>
  /\ \E r \in {RunHandlers([busy |-> busy, writes |-> <<>>, dones |-> <<>>, dead |-> {}],
                           dataListeners, SegmentsOf[response])} :
       /\ tickListeners' = WithoutAll(tickListeners, dataListeners)
       /\ dataListeners' = <<>>
       /\ busy' = r.busy
       /\ lastWrites' = r.writes
       /\ lastDone' = r.dones
       /\ \E c \in {ConnectResume(conn, r.dones, tasks, queue)} :
            /\ conn' = c.conn
            /\ tasks' = c.tasks
            /\ queue' = c.queue
            /\ lastEmits' = StatusEmits(r.dones) \o c.emits
       /\ done' = RecordDone(done, r.dones)
       /\ doneOrder' = RecordOrder(doneOrder, r.dones)
       /\ alive' \in AfterThrow(r.dead # {})
  /\ timeoutCounter' = Collect(timeoutCounter, tickListeners', imm)
  /\ ticksSeen' = [t \in TaskIds |-> IF done'[t] = 0 THEN ticksSeen[t] ELSE 0]
  /\ UNCHANGED <<isOpen, timerOn, imm, checkPhase, waiter>>

handler == \E response \in Frames : HandlerFor(response)

----------------------------------------------------------------------------
(* The tick clock and its deferred callbacks *)

ImmOnTick == [fn |-> "onTick", task |-> 0]

\* the listener id of the timeoutHandler of asyncOnce()
AsyncId == 0

\* the deferred step of a timeoutHandler: of the Task t, or of asyncOnce()
ImmTimeout(t) ==
  [fn |-> IF t = AsyncId THEN "asyncTimeout" ELSE "timeout", task |-> t]

\* the interval emits 'tick': the constructor's listener defers onTick and
\* every registered timeoutHandler defers its accumulator step
tick ==
  /\ alive
  /\ timerOn
  /\ imm = <<>>
  /\ imm' = <<ImmOnTick>> \o [i \in 1..Len(tickListeners) |-> ImmTimeout(tickListeners[i])]
  /\ ticksSeen' = [t \in TaskIds |->
                     IF t \in InFlight /\ tasks[t].timeout # 0
                       THEN ticksSeen[t] + 1 ELSE ticksSeen[t]]
  /\ waiter' = IF AsyncId \in Range(tickListeners)
                 THEN [waiter EXCEPT !.ticks = @ + 1] ELSE waiter
  /\ lastWrites' = <<>>
  /\ lastDone' = <<>>
  /\ lastEmits' = <<>>
  /\ UNCHANGED <<isOpen, timerOn, busy, queue, tasks, tickListeners, dataListeners,
                 timeoutCounter, checkPhase, alive, done, doneOrder, conn>>

\* the next deferred callback is taken off the immediate queue
TakeImmediate(fn) ==
  /\ alive
  /\ imm # <<>>
  /\ Head(imm).fn = fn
  /\ imm' = Tail(imm)
  /\ checkPhase' = (Tail(imm) # <<>>)

InitialTimeoutCounter == 0

\* onTick while busy: nothing is done
onTickBusy ==
  /\ TakeImmediate("onTick")
  /\ busy
  /\ lastWrites' = <<>>
  /\ lastDone' = <<>>
  /\ Quiet
  /\ UNCHANGED <<isOpen, timerOn, busy, queue, tasks, tickListeners, dataListeners,
                 timeoutCounter, alive, done, doneOrder, ticksSeen>>

\* onTick while idle with a queued Task: the Task is dispatched
onTickDispatch ==
  /\ TakeImmediate("onTick")
  /\ ~busy
  /\ queue # <<>>
  /\ LET task == Head(queue)
     IN  /\ queue' = Tail(queue)
         /\ busy' = TRUE
         /\ timeoutCounter' = [timeoutCounter EXCEPT ![task] = InitialTimeoutCounter]
         /\ dataListeners' = Append(dataListeners, task)
         /\ lastWrites' = <<Write("task", task)>>
         /\ tickListeners' = IF tasks[task].timeout # 0
                               THEN Append(tickListeners, task)
                               ELSE tickListeners
  /\ lastDone' = <<>>
  /\ Quiet
  /\ UNCHANGED <<isOpen, timerOn, tasks, alive, done, doneOrder, ticksSeen>>

\* variant: the synthesized Poll Task is dispatched in the same onTick
onTickPollDispatches ==
  /\ TakeImmediate("onTick")
  /\ ~busy
  /\ queue = <<>>
  /\ Len(tasks) - Len(conn.ids) < MaxTasks
  /\ tasks' = Append(tasks, [kind |-> "poll", timeout |-> PollTimeout])
  /\ busy' = TRUE
  /\ dataListeners' = Append(dataListeners, Len(tasks) + 1)
  /\ tickListeners' = Append(tickListeners, Len(tasks) + 1)
  /\ lastWrites' = <<Write("task", Len(tasks) + 1)>>
  /\ lastDone' = <<>>
  /\ Quiet
  /\ UNCHANGED <<isOpen, timerOn, queue, timeoutCounter, alive, done, doneOrder, ticksSeen>>

\* onTick while idle with an empty queue: a Poll Task is added to the queue
onTickPoll ==
  /\ TakeImmediate("onTick")
  /\ ~busy
  /\ queue = <<>>
  /\ Len(tasks) - Len(conn.ids) < MaxTasks
  /\ tasks' = Append(tasks, [kind |-> "poll", timeout |-> PollTimeout])
  /\ queue' = Append(queue, Len(tasks) + 1)
  /\ lastWrites' = <<>>
  /\ lastDone' = <<>>
  /\ Quiet
  /\ UNCHANGED <<isOpen, timerOn, busy, tickListeners, dataListeners,
                 timeoutCounter, alive, done, doneOrder, ticksSeen>>

\* variant: the budget must be exceeded, not reached
TimedOutLate(counter, timeout) == counter > timeout

TimedOut(counter, timeout) == counter >= timeout

\* the deferred step of a Task's timeoutHandler, budget not yet reached
timeoutHandlerWait ==
  /\ TakeImmediate("timeout")
  /\ LET task == Head(imm).task
         counter == timeoutCounter[task] + timerMs
     IN  /\ ~TimedOut(counter, tasks[task].timeout)
         /\ timeoutCounter' = Collect([timeoutCounter EXCEPT ![task] = counter],
                                      tickListeners, imm')
  /\ lastWrites' = <<>>
  /\ lastDone' = <<>>
  /\ Quiet
  /\ UNCHANGED <<isOpen, timerOn, busy, queue, tasks, tickListeners, dataListeners,
                 alive, done, doneOrder, ticksSeen>>

\* the deferred step of a Task's timeoutHandler, budget reached
timeoutHandlerFire ==
  /\ TakeImmediate("timeout")
  /\ LET task == Head(imm).task
         counter == timeoutCounter[task] + timerMs
         call == [task |-> task, err |-> RequestTimeout, data |-> Null]
     IN  /\ TimedOut(counter, tasks[task].timeout)
         /\ busy' = FALSE
         /\ tickListeners' = Without(tickListeners, task)
         /\ timeoutCounter' = Collect([timeoutCounter EXCEPT ![task] = counter],
                                      tickListeners', imm')
         /\ lastDone' = <<call>>
         /\ \E c \in {ConnectResume(conn, <<call>>, tasks, queue)} :
              /\ conn' = c.conn
              /\ tasks' = c.tasks
              /\ queue' = c.queue
              /\ lastEmits' = c.emits
         /\ done' = RecordDone(done, <<call>>)
         /\ doneOrder' = RecordOrder(doneOrder, <<call>>)
         /\ alive' \in AfterThrow(Throws(task, RequestTimeout))
  /\ ticksSeen' = [t \in TaskIds |-> IF done'[t] = 0 THEN ticksSeen[t] ELSE 0]
  /\ lastWrites' = <<>>
  /\ UNCHANGED <<isOpen, timerOn, dataListeners, waiter>>

----------------------------------------------------------------------------
(* The facade and the serial port lifecycle *)

\* execute(command, params, timeout): a Task is appended to the queue
execute ==
  /\ alive
  /\ Len(tasks) - Len(conn.ids) < MaxTasks
  /\ \E timeout \in Timeouts :
       tasks' = Append(tasks, [kind |-> "caller", timeout |-> timeout])
  /\ queue' = Append(queue, Len(tasks) + 1)
  /\ lastWrites' = <<>>
  /\ lastDone' = <<>>
  /\ Quiet
  /\ UNCHANGED <<isOpen, timerOn, busy, tickListeners, dataListeners, timeoutCounter,
                 imm, checkPhase, alive, done, doneOrder, ticksSeen>>

Lifecycle ==
  /\ alive
  /\ lastWrites' = <<>>
  /\ lastDone' = <<>>
  /\ Quiet
  /\ UNCHANGED <<busy, queue, tasks, tickListeners, dataListeners, timeoutCounter,
                 imm, checkPhase, alive, done, doneOrder, ticksSeen>>

\* the port reports 'open': the operating timer is started
onSerialPortOpen == timerOn' = TRUE

\* the port reports 'close': the operating timer is stopped
onSerialPortClose == timerOn' = FALSE

\* open(): a port that is not open is opened and reports 'open'
open ==
  /\ ~isOpen
  /\ isOpen' = TRUE
  /\ onSerialPortOpen
  /\ Lifecycle

\* disconnect() / close(): a port that is open is closed and reports 'close'
close ==
  /\ isOpen
  /\ isOpen' = FALSE
  /\ onSerialPortClose
  /\ Lifecycle

\* the port reports 'error': the operating timer is stopped
onSerialPortError ==
  /\ isOpen
  /\ UNCHANGED isOpen
  /\ timerOn' = FALSE
  /\ Lifecycle

----------------------------------------------------------------------------
(* asyncOnce(event, timeout) *)

\* the engine is left alone by the steps of asyncOnce()
AsyncStep ==
  /\ lastWrites' = <<>>
  /\ lastDone' = <<>>
  /\ lastEmits' = <<>>
  /\ UNCHANGED <<isOpen, timerOn, busy, queue, tasks, dataListeners, timeoutCounter,
                 alive, done, doneOrder, ticksSeen, conn>>

\* the promise of asyncOnce() settles once: a later resolve() or reject()
\* changes nothing
Settle(w, outcome) == IF w.state = "waiting" THEN [w EXCEPT !.state = outcome] ELSE w

\* the closure of asyncOnce() is unreachable once the promise is settled,
\* the event listener has run and no deferred step is pending
Forget(w, pending) ==
  IF /\ w.state \in {"resolved", "rejected"}
     /\ ~w.listening
     /\ \A i \in 1..Len(pending) : pending[i].task # AsyncId
    THEN [w EXCEPT !.counter = 0, !.ticks = 0]
    ELSE w

\* asyncOnce(event, timeout): the event listener is registered, and the
\* timeoutHandler when the timeout is not 0
asyncOnce ==
  /\ alive
  /\ waiter.state = "none"
  /\ \E timeout \in Timeouts :
       /\ waiter' = [state |-> "waiting", listening |-> TRUE, timeout |-> timeout,
                     counter |-> 0, ticks |-> 0]
       /\ tickListeners' = IF timeout # 0 THEN Append(tickListeners, AsyncId)
                                          ELSE tickListeners
  /\ UNCHANGED <<imm, checkPhase>>
  /\ AsyncStep

\* the event asyncOnce() waits for is emitted: its once-listener removes
\* the timeoutHandler and resolves
emitEvent ==
  /\ alive
  /\ ~checkPhase
  /\ waiter.listening
  /\ tickListeners' = Without(tickListeners, AsyncId)
  /\ waiter' = Forget([Settle(waiter, "resolved") EXCEPT !.listening = FALSE], imm)
  /\ UNCHANGED <<imm, checkPhase>>
  /\ AsyncStep

\* variant: the timeout is reached one tick late
AsyncTimedOutLate(counter, timeout) == counter > timeout

\* asyncOnce's timeoutHandler: timeoutCounter >= timeout
AsyncTimedOut(counter, timeout) == counter >= timeout

\* the deferred step of asyncOnce's timeoutHandler, budget not reached
asyncTimeoutWait ==
  /\ TakeImmediate("asyncTimeout")
  /\ LET counter == waiter.counter + timerMs
     IN  /\ ~AsyncTimedOut(counter, waiter.timeout)
         /\ waiter' = Forget([waiter EXCEPT !.counter = counter], imm')
  /\ UNCHANGED tickListeners
  /\ AsyncStep

\* the deferred step of asyncOnce's timeoutHandler, budget reached: the
\* listener is removed and the promise rejected
asyncTimeoutFire ==
  /\ TakeImmediate("asyncTimeout")
  /\ LET counter == waiter.counter + timerMs
     IN  /\ AsyncTimedOut(counter, waiter.timeout)
         /\ waiter' = Forget(Settle([waiter EXCEPT !.counter = counter], "rejected"), imm')
  /\ tickListeners' = Without(tickListeners, AsyncId)
  /\ AsyncStep

----------------------------------------------------------------------------
(* connect() *)

\* connect(): the port is opened unless it is open, and Reset is enqueued
connect ==
  /\ alive
  /\ ~checkPhase
  /\ conn = ConnIdle
  /\ isOpen' = TRUE
  /\ IF isOpen THEN UNCHANGED timerOn ELSE onSerialPortOpen
  /\ tasks' = Append(tasks, CommandTask)
  /\ queue' = Append(queue, Len(tasks) + 1)
  /\ conn' = [pc |-> "await", ids |-> <<Len(tasks) + 1>>]
  /\ lastWrites' = <<>>
  /\ lastDone' = <<>>
  /\ lastEmits' = <<>>
  /\ UNCHANGED <<busy, tickListeners, dataListeners, timeoutCounter, imm, checkPhase,
                 alive, done, doneOrder, ticksSeen, waiter>>

Next ==
  \/ execute
  \/ tick
  \/ onTickBusy
  \/ onTickDispatch
  \/ onTickPoll
  \/ timeoutHandlerWait
  \/ timeoutHandlerFire
  \/ handler
  \/ open
  \/ close
  \/ onSerialPortError

Spec == Init /\ [][Next]_vars

\* the engine polling an idle device while a caller waits with asyncOnce()
NextAsync ==
  \/ asyncOnce
  \/ emitEvent
  \/ asyncTimeoutWait
  \/ asyncTimeoutFire
  \/ tick
  \/ onTickBusy
  \/ onTickDispatch
  \/ onTickPoll
  \/ timeoutHandlerWait
  \/ timeoutHandlerFire
  \/ handler
  \/ open
  \/ close
  \/ onSerialPortError

SpecAsync == Init /\ [][NextAsync]_vars

\* the engine while the port, once open, stays open
NextProgress ==
  \/ execute
  \/ tick
  \/ onTickBusy
  \/ onTickDispatch
  \/ onTickPoll
  \/ timeoutHandlerWait
  \/ timeoutHandlerFire
  \/ handler
  \/ open

\* a callback deferred with setImmediate
Deferred ==
  \/ onTickBusy
  \/ onTickDispatch
  \/ onTickPoll
  \/ timeoutHandlerWait
  \/ timeoutHandlerFire

\* the interval keeps emitting 'tick' while it is set, and the event loop
\* runs every callback that setImmediate deferred
SpecProgress ==
  /\ Init
  /\ [][NextProgress]_vars
  /\ WF_vars(tick)
  /\ WF_vars(Deferred)

\* a caller that connects, and may disconnect, while the engine polls
NextConnect ==
  \/ connect
  \/ tick
  \/ onTickBusy
  \/ onTickDispatch
  \/ onTickPoll
  \/ timeoutHandlerWait
  \/ timeoutHandlerFire
  \/ handler
  \/ close
  \/ onSerialPortError

SpecConnect == Init /\ [][NextConnect]_vars

----------------------------------------------------------------------------
TypeOK ==
  /\ isOpen \in BOOLEAN /\ timerOn \in BOOLEAN /\ busy \in BOOLEAN /\ checkPhase \in BOOLEAN /\ alive \in BOOLEAN
  /\ Len(tasks) <= MaxTasks + ConnectCommands
  /\ Range(queue) \subseteq Created
  /\ Range(tickListeners) \subseteq Dispatched \cup {AsyncId}
  /\ Range(dataListeners) \subseteq Dispatched

----------------------------------------------------------------------------
(* Properties *)

\* the calls of task t's sink among `calls`
CallsOf(calls, t) == {i \in 1..Len(calls) : calls[i].task = t}

HasCall(calls, t, err, data) ==
  \E i \in CallsOf(calls, t) : calls[i].err = err /\ calls[i].data = data

HasSuccess(calls, t) == \E i \in CallsOf(calls, t) : calls[i].err = NoError

Count(writes, kind) == Cardinality({i \in 1..Len(writes) : writes[i].kind = kind})

IsMarker(f) == Payload(f) = <<ACK>> \/ Payload(f) = <<NAK>>

\* the frames of Frames by checksum and payload
ValidResponses == {f \in Frames : CrcMatches(f) /\ ~IsMarker(f)}

ValidAcks == {f \in Frames : CrcMatches(f) /\ Payload(f) = <<ACK>>}

ValidNaks == {f \in Frames : CrcMatches(f) /\ Payload(f) = <<NAK>>}

BadChecksums == {f \in Frames : ~CrcMatches(f)}

\* C1: single-flight - in every reachable state at most one Task has had its
\* bytes written to the transport without its completion sink having been
\* invoked yet.
SingleFlight == Cardinality(InFlight) <= 1

\* C2: FIFO completion order - Tasks have their sinks invoked (for the first
\* time) in the order in which they were appended to the queue.
FifoCompletion == \A i \in 1..Len(doneOrder) : doneOrder[i] = i

\* C3: a Task's completion sink is invoked at most once over its lifetime.
DoneAtMostOnce == \A t \in TaskIds : done[t] <= 1

\* a Task with budget `timeout` is at the first tick, the n-th since its
\* dispatch, at which the accumulated tick time reaches the budget
FirstTickReaching(n, timeout) ==
  /\ n * timerMs >= timeout
  /\ (n - 1) * timerMs < timeout

\* Tasks that were dispatched and have received no frame
Unanswered == InFlight \cap Range(dataListeners)

\* C4: timeout boundary - a dispatched Task with nonzero timeout T that has
\* received no frame is failed with the request-timeout error at the first
\* tick after its dispatch at which the accumulated tick time is >= T: not
\* at an earlier tick, and once that tick's callbacks have run no such Task
\* is still waiting.
TimeoutBoundary ==
  [][ /\ \A i \in 1..Len(lastDone') :
           (lastDone'[i].err = RequestTimeout /\ lastDone'[i].task \in Unanswered)
             => FirstTickReaching(ticksSeen[lastDone'[i].task],
                                  tasks[lastDone'[i].task].timeout)
      /\ imm' = <<>> =>
           \A t \in Unanswered' :
             tasks'[t].timeout # 0 => ticksSeen'[t] * timerMs < tasks'[t].timeout
    ]_vars

\* C4 witness: a caller's Task with a budget of two ticks has just been
\* failed with the request-timeout error without having received a frame.
TimeoutBoundaryWitness ==
  \E t \in Created :
    /\ tasks[t].timeout = 2 * timerMs
    /\ lastDone = <<[task |-> t, err |-> RequestTimeout, data |-> Null]>>
    /\ t \in Range(dataListeners)
    /\ done[t] = 1

\* C5 as stated: on a tick where the engine is idle and the queue is empty,
\* the synthesized Poll Task is written to the transport and busy is set
\* during that same tick.
IdlePollDispatchedSameTick ==
  [][onTickPoll => (busy' /\ Len(lastWrites') = 1)]_vars

\* C5 amended: on such a tick exactly one Poll Task is synthesized and
\* appended to the queue, nothing is written and busy stays false; the Poll
\* Task is written (and busy set) by the next onTick, for which it heads the
\* queue.
IdlePollQueued ==
  [][ /\ onTickPoll =>
           /\ Len(tasks') = Len(tasks) + 1
           /\ tasks'[Len(tasks')] = [kind |-> "poll", timeout |-> PollTimeout]
           /\ queue' = <<Len(tasks')>>
           /\ ~busy'
           /\ lastWrites' = <<>>
      /\ (onTickBusy \/ onTickDispatch \/ onTickPoll) =>
           \A i \in 1..Len(queue) :
             tasks[queue[i]].kind = "poll" =>
               /\ i = 1
               /\ busy'
               /\ lastWrites' = <<Write("task", queue[i])>>
               /\ queue' = Tail(queue)
    ]_vars

\* C5 witness: a synthesized Poll Task waits alone in the queue of the idle
\* engine, nothing having been written for it.
IdlePollQueuedWitness ==
  /\ Len(queue) = 1
  /\ tasks[queue[1]].kind = "poll"
  /\ ~busy
  /\ lastWrites = <<>>
  /\ InFlight = {}

\* C6: a checksum-valid frame whose payload is neither the ACK nor the NAK
\* marker, received while a Task is in flight, makes the engine write
\* exactly one Ack frame, clear busy and invoke the Task's sink with no
\* error and the payload.
ValidResponseOneAck ==
  [][ \A f \in ValidResponses :
        (InFlight # {} /\ HandlerFor(f)) =>
          /\ Count(lastWrites', "Ack") = 1
          /\ ~busy'
          /\ \A t \in InFlight : HasCall(lastDone', t, NoError, Buf(Payload(f)))
    ]_vars

\* C7: a frame whose trailing 2 bytes differ from the CRC16 of the preceding
\* bytes, received while a Task is in flight, makes the engine write a Nak
\* frame and no Ack frame, clear busy and fail the Task with the
\* checksum-mismatch error, never delivering a success result for it.
BadChecksumNakOnly ==
  [][ \A f \in BadChecksums :
        (InFlight # {} /\ HandlerFor(f)) =>
          /\ Count(lastWrites', "Nak") >= 1
          /\ Count(lastWrites', "Ack") = 0
          /\ ~busy'
          /\ \A t \in InFlight :
               /\ HasCall(lastDone', t, WrongResponseHash, Null)
               /\ ~HasSuccess(lastDone', t)
    ]_vars

\* C8: a checksum-valid frame with the single-byte NAK payload, received
\* while a Task is in flight, makes the engine write no Ack, clear busy and
\* fail the Task with the peer-rejected error, never delivering a success
\* result for it.
PeerNakFailsOnly ==
  [][ \A f \in ValidNaks :
        (InFlight # {} /\ HandlerFor(f)) =>
          /\ Count(lastWrites', "Ack") = 0
          /\ ~busy'
          /\ \A t \in InFlight :
               /\ HasCall(lastDone', t, WrongRequestHash, Null)
               /\ ~HasSuccess(lastDone', t)
    ]_vars

\* C9 as stated: a checksum-valid frame with the single-byte ACK payload is
\* handshake-only - busy stays true, no sink is invoked, nothing is written
\* and the Task keeps its listener for the next frame.
AckIsHandshakeOnly ==
  [][ \A f \in ValidAcks :
        (InFlight # {} /\ HandlerFor(f)) =>
          /\ busy'
          /\ lastDone' = <<>>
          /\ lastWrites' = <<>>
          /\ InFlight \subseteq Range(dataListeners')
    ]_vars

\* C9 amended: a checksum-valid frame with the single-byte ACK payload,
\* received while a Task is in flight, completes the Task: nothing is
\* written to the transport, busy is cleared, the Task's sink is invoked
\* exactly once, with no error and the one-byte payload 0x00, and no
\* listener is left waiting for a later frame.
AckCompletesTask ==
  [][ \A f \in ValidAcks :
        (InFlight # {} /\ HandlerFor(f)) =>
          /\ lastWrites' = <<>>
          /\ ~busy'
          /\ \A t \in InFlight :
               /\ Cardinality(CallsOf(lastDone', t)) = 1
               /\ HasCall(lastDone', t, NoError, Buf(<<ACK>>))
               /\ done'[t] = 1
          /\ dataListeners' = <<>>
    ]_vars

\* C9 witness: a Task has just been completed by an ACK frame: its sink got
\* no error and the payload 0x00, and nothing was written.
AckCompletesTaskWitness ==
  \E t \in Created :
    /\ lastDone = <<[task |-> t, err |-> NoError, data |-> Buf(<<ACK>>)]>>
    /\ done[t] = 1
    /\ lastWrites = <<>>
    /\ ~busy

\* C10: when disconnect() closes the transport, every Task in flight or
\* waiting in the queue has its sink invoked with an error, and the queue is
\* left empty.
DisconnectFailsTasks ==
  [][ close =>
        /\ queue' = <<>>
        /\ \A t \in InFlight \cup Range(queue) :
             \E i \in CallsOf(lastDone', t) : lastDone'[i].err # NoError
    ]_vars


----------------------------------------------------------------------------
(* Status notifications *)

\* the Poll Tasks whose sink received a success among `calls`
PollSuccesses(calls) ==
  {i \in 1..Len(calls) : tasks[calls[i].task].kind = "poll" /\ calls[i].err = NoError}

\* C13: a step in which a synthesized Poll Task completes successfully
\* emits a status-changed notification to the subscribers.
PollSuccessNotifies ==
  [][ PollSuccesses(lastDone') # {} =>
        \E i \in 1..Len(lastEmits') : lastEmits'[i].event = "status"
    ]_vars

\* the codes of the table
StatusCodes == {DeviceStatus[n] : n \in DOMAIN DeviceStatus}

\* what classification is to yield for `code`: the state of the code, or
\* the UnrecognizedStatus error
Classified(code) ==
  IF code \in StatusCodes
    THEN [event |-> "status", state |-> CHOOSE n \in DOMAIN DeviceStatus : DeviceStatus[n] = code]
    ELSE [event |-> "error", state |-> "UnrecognizedStatus"]

\* C14: status classification is a total lookup with a defined error - the
\* status a Poll Task returns yields the state the table gives its code
\* (0x1c 0x60 REJECTING_DUE_TO_INSERTION), and the UnrecognizedStatus error
\* when the table does not list the code.
StatusClassified ==
  [][ \A i \in PollSuccesses(lastDone') :
        \E j \in 1..Len(lastEmits') :
          lastEmits'[j] = Classified(lastDone'[i].data.bytes)
    ]_vars

----------------------------------------------------------------------------
(* Stale listeners and deferred timeout steps *)

\* C16: after a Task failed by timeout a frame that arrives does not invoke
\* its sink: the Tasks that still listen for a frame have never been
\* completed, so no frame reaches a Task that timed out.
TimedOutTaskIsDeaf ==
  [][ \A f \in Frames :
        HandlerFor(f) =>
          \A t \in Range(dataListeners) :
            done[t] >= 1 => CallsOf(lastDone', t) = {}
    ]_vars

\* C17: once a frame has been handled for a Task its timeout never fires:
\* the deferred timeout step delivers its error, and clears busy, only for
\* a Task whose sink has not been invoked.
AnsweredTaskNeverTimesOut ==
  [][ timeoutHandlerFire => done[Head(imm).task] = 0 ]_vars

\* C18: a Task dispatched with timeout 0 has no timeout listener and, until
\* a frame arrives, stays in flight with busy true and no later Task
\* dispatched.
ZeroTimeoutBlocks ==
  \A t \in InFlight :
    tasks[t].timeout = 0 =>
      /\ t \notin Range(tickListeners)
      /\ busy
      /\ \A u \in Dispatched : u <= t

\* C19: while the tick clock is stopped after a close or an error of the
\* port, no tick is emitted, no queued Task is dequeued and no Task is
\* written to the port.
StoppedClockStopsDispatch ==
  [][ ~timerOn =>
        /\ ~tick
        /\ Dispatched' = Dispatched
        /\ Count(lastWrites', "task") = 0
    ]_vars


----------------------------------------------------------------------------
(* asyncOnce *)

\* a step of asyncOnce(): the call, the event, a deferred timeout step
AsyncOnceStep == asyncOnce \/ emitEvent \/ asyncTimeoutWait \/ asyncTimeoutFire

Settled == {"resolved", "rejected"}

\* C15: asyncOnce(event, T) with T # 0 resolves when the event is emitted
\* before the accumulated tick time reaches T, and is otherwise rejected
\* by the first tick at which the accumulated tick time is >= T; the tick
\* listener is gone once it is settled, the outcome is final, and no step
\* of asyncOnce changes the queue or the busy flag.
AsyncOnceOutcome ==
  [][ /\ (waiter.timeout # 0 /\ waiter.state = "waiting") =>
           /\ waiter.counter < waiter.timeout
           /\ emitEvent => waiter'.state = "resolved"
           /\ (asyncTimeoutWait \/ asyncTimeoutFire) =>
                (waiter'.state = "rejected"
                   <=> FirstTickReaching(waiter.ticks, waiter.timeout))
           /\ waiter'.state \in Settled => AsyncId \notin Range(tickListeners')
      /\ waiter.state \in Settled =>
           /\ waiter'.state = waiter.state
           /\ AsyncId \notin Range(tickListeners')
      /\ AsyncOnceStep => UNCHANGED <<queue, busy>>
    ]_vars

\* asyncOnce was rejected by its timeout while a Task was in flight
AsyncOnceOutcomeWitness ==
  /\ waiter.state = "rejected"
  /\ waiter.timeout # 0
  /\ busy
  /\ InFlight # {}


----------------------------------------------------------------------------
(* connect *)

ConnectEmitted(emits) == \E i \in 1..Len(emits) : emits[i].event = "connect"

\* the sink of task t is called in this step, with an error among the calls
FailsNow(t) == \E i \in CallsOf(lastDone', t) : lastDone'[i].err # NoError

\* the sink of task t is called in this step, and with no error
SucceedsNow(t) == CallsOf(lastDone', t) # {} /\ ~FailsNow(t)

\* C11: connect() enqueues Reset, Identification, GetBillTable and
\* GetCRC32OfTheCode one after the other, each only when the one before has
\* completed successfully, and emits 'connect' only when the last of the
\* four has; when one of them fails connect() rejects, enqueues no further
\* command and never emits 'connect'.
ConnectSequence ==
  [][ /\ \A i \in 1..(Len(conn.ids) - 1) :
           /\ done[conn.ids[i]] >= 1
           /\ conn.ids[i] < conn.ids[i + 1]
      /\ Cardinality(InFlight \cap Range(conn.ids)) <= 1
      /\ conn.pc = "connected" =>
           /\ Len(conn.ids) = ConnectCommands
           /\ \A i \in 1..Len(conn.ids) : done[conn.ids[i]] >= 1
      /\ conn.pc = "await" =>
           LET t == Awaited(conn)
           IN  /\ FailsNow(t) =>
                    /\ conn' = [conn EXCEPT !.pc = "rejected"]
                    /\ queue' = queue
                    /\ ~ConnectEmitted(lastEmits')
               /\ (SucceedsNow(t) /\ Len(conn.ids) < ConnectCommands) =>
                    /\ t \in Dispatched
                    /\ conn' = [conn EXCEPT !.ids = Append(@, Len(tasks) + 1)]
                    /\ queue' = Append(queue, Len(tasks) + 1)
                    /\ ~ConnectEmitted(lastEmits')
               /\ (SucceedsNow(t) /\ Len(conn.ids) = ConnectCommands) =>
                    /\ t \in Dispatched
                    /\ conn' = [conn EXCEPT !.pc = "connected"]
                    /\ ConnectEmitted(lastEmits')
               /\ CallsOf(lastDone', t) = {} =>
                    /\ conn' = conn
                    /\ ~ConnectEmitted(lastEmits')
      /\ conn.pc \in {"connected", "rejected"} =>
           /\ conn' = conn
           /\ ~ConnectEmitted(lastEmits')
    ]_vars

\* connect() has emitted 'connect'
ConnectSequenceWitness ==
  /\ conn.pc = "connected"
  /\ ConnectEmitted(lastEmits)
  /\ Len(conn.ids) = ConnectCommands


----------------------------------------------------------------------------
(* Poll Tasks *)

\* the Poll Tasks that are queued or in flight
LivePolls == {t \in Created : tasks[t].kind = "poll" /\ done[t] = 0}

\* C20: there is at most one synthesized Poll Task across the queue and the
\* in-flight slot, and the queue holds its Tasks in the order of their
\* creation, so that no Poll Task stands ahead of a Task that waited before
\* it.
AtMostOnePoll ==
  /\ Cardinality(LivePolls) <= 1
  /\ \A i, j \in 1..Len(queue) : i < j => queue[i] < queue[j]


----------------------------------------------------------------------------
(* Progress *)

\* task t and every uncompleted Task ahead of it have a nonzero timeout
Bounded(t) ==
  \A u \in Created : (u <= t /\ done[u] = 0) => tasks[u].timeout # 0

\* no further Task can be created within the bound of the model
Exhausted == Len(tasks) - Len(conn.ids) >= MaxTasks

\* C12: while the port stays open and ticks keep firing, every enqueued
\* Task whose timeout, and that of every Task ahead of it, is nonzero
\* eventually has its sink invoked, whatever the device answers.
Progress ==
  \A t \in 1..MaxTasks :
    (timerOn /\ t \in Range(queue) /\ Bounded(t)) ~> (done[t] >= 1 \/ Exhausted)

====
